---- MODULE Spec2Model ----
(***************************************************************************)
(* MindGames problem-chain generator (lib/problem-generator):             *)
(* generateWorksheet -> generateChain -> generateProblem ->               *)
(* tryGenerateProblem -> generateOperand, stepped as a state machine.     *)
(* Every Math.random() draw is a nondeterministic choice.                 *)
(***************************************************************************)
EXTENDS Integers, Sequences, FiniteSets, TLC

(***************************************************************************)
(* Bounds of the model                                                     *)
(***************************************************************************)
\* generateId draws are taken from 1..NumIds
NumIds == 2
\* the small-result configurations have maxResult in 1..MaxSmallResult
MaxSmallResult == 3
\* the short-chain configurations have chainLength in 0..MaxShortLength
MaxShortLength == 2
\* the default-bounds configurations have maxResult in 20..MaxDefaultResult
MaxDefaultResult == 20

(***************************************************************************)
(* Arithmetic helpers (Math.min, Math.max, Math.floor of a quotient)       *)
(***************************************************************************)
Min(a, b) == IF a <= b THEN a ELSE b

Max(a, b) == IF a >= b THEN a ELSE b

\* Math.floor(a / b) for b # 0, rounding toward minus infinity
FloorDiv(a, b) ==
  IF b > 0 THEN a \div b ELSE (0 - a) \div (0 - b)

Operations == <<"add", "subtract", "multiply", "divide">>

\* Math.random() * 100 compared with integer thresholds: only its integer part matters
Draws == 0..99

(***************************************************************************)
(* randomInt(min, max): Math.floor(Math.random() * (max - min + 1)) + min  *)
(* With k = max - min + 1 <= 0 the product lies in (k, 0], so the floor    *)
(* ranges over k..0 and the value over max+1..min.                         *)
(***************************************************************************)
randomInt(min, max) ==
  IF max - min + 1 > 0 THEN min..max ELSE (max + 1)..min

(***************************************************************************)
(* selectOperationByMix with the draw r = Math.random() * 100              *)
(***************************************************************************)
\* the comparisons as random <= cumulative
selectOperationInclusive(mix, r) ==
  IF r <= mix.add THEN "add"
  ELSE IF r <= mix.add + mix.subtract THEN "subtract"
  ELSE IF r <= mix.add + mix.subtract + mix.multiply THEN "multiply"
  ELSE "divide"

selectOperationByMix(mix, r) ==
  IF r < mix.add THEN "add"
  ELSE IF r < mix.add + mix.subtract THEN "subtract"
  ELSE IF r < mix.add + mix.subtract + mix.multiply THEN "multiply"
  ELSE "divide"

\* the operations some draw selects
selectableOperations(mix) == { selectOperationByMix(mix, r) : r \in Draws }

(***************************************************************************)
(* generateOperand: the set of operands the call can return; {} is null    *)
(***************************************************************************)
\* add without max = Math.min(max, maxAddend)
addOperandsUncapped(currentValue, config) ==
  LET min == config.operations.add.minValue
      max == config.operations.add.maxValue
      maxAddend == config.maxResult - currentValue
  IN IF maxAddend < min THEN {}
     ELSE IF max < min THEN {}
     ELSE randomInt(min, max)

addOperands(currentValue, config) ==
  LET min == config.operations.add.minValue
      max == config.operations.add.maxValue
      maxAddend == config.maxResult - currentValue
  IN IF maxAddend < min THEN {}
     ELSE IF Min(max, maxAddend) < min THEN {}
     ELSE randomInt(min, Min(max, maxAddend))

\* subtract with no floor at -maxResult once negative results are allowed
subtractOperandsUnfloored(currentValue, config) ==
  LET min == config.operations.subtract.minValue
      max == config.operations.subtract.maxValue
      maxSubtrahend == currentValue - 1
  IN IF config.allowNegativeResults THEN randomInt(min, max)
     ELSE IF maxSubtrahend < min THEN {}
     ELSE IF Min(max, maxSubtrahend) < min THEN {}
     ELSE randomInt(min, Min(max, maxSubtrahend))

subtractOperands(currentValue, config) ==
  LET min == config.operations.subtract.minValue
      max == config.operations.subtract.maxValue
      minResult == IF config.allowNegativeResults THEN 0 - config.maxResult ELSE 1
      maxSubtrahend == currentValue - minResult
  IN IF maxSubtrahend < min THEN {}
     ELSE IF Min(max, maxSubtrahend) < min THEN {}
     ELSE randomInt(min, Min(max, maxSubtrahend))

\* multiply whose multipliers start from 1 whatever the configured minimum
multiplyOperandsFromOne(currentValue, config) ==
  LET max == config.operations.multiply.maxValue
  IN IF currentValue = 0 THEN randomInt(1, max)
     ELSE LET maxMultiplier == FloorDiv(config.maxResult, currentValue)
          IN IF maxMultiplier < 1 THEN {}
             ELSE IF Min(max, maxMultiplier) < 1 THEN {}
             ELSE randomInt(1, Min(max, maxMultiplier))

multiplyOperands(currentValue, config) ==
  LET min == config.operations.multiply.minValue
      max == config.operations.multiply.maxValue
  IN IF currentValue = 0 THEN randomInt(min, max)
     ELSE LET maxMultiplier == FloorDiv(config.maxResult, currentValue)
          IN IF maxMultiplier < min THEN {}
             ELSE IF Min(max, maxMultiplier) < min THEN {}
             ELSE randomInt(min, Min(max, maxMultiplier))

\* the divisors collected by the loop of the divide case; d = 0 gives NaN % and
\* d < 0 a quotient below 1, neither is pushed
validDivisors(currentValue, config) ==
  LET min == config.operations.divide.minValue
      max == config.operations.divide.maxValue
  IN { d \in min..Min(max, currentValue) :
         /\ d > 0
         /\ currentValue % d = 0
         /\ currentValue \div d >= 1
         /\ currentValue \div d <= config.maxResult }

\* validDivisors as the array the loop fills, d ascending
validDivisorList(currentValue, config) ==
  LET pushed == validDivisors(currentValue, config)
  IN [k \in 1..Cardinality(pushed) |->
        CHOOSE d \in pushed : Cardinality({ e \in pushed : e < d }) = k - 1]

\* an index draw that never reaches the last element
divisorIndexesButLast(length) == randomInt(0, length - 2)

\* randomInt(0, validDivisors.length - 1)
divisorIndexes(length) == randomInt(0, length - 1)

divideOperands(currentValue, config) ==
  IF currentValue <= 0 THEN {}
  ELSE LET list == validDivisorList(currentValue, config)
           length == Cardinality(DOMAIN list)
       IN IF length = 0 THEN {}
          ELSE { list[index + 1] : index \in divisorIndexes(length) }

generateOperand(operation, currentValue, config) ==
  CASE operation = "add" -> addOperands(currentValue, config)
    [] operation = "subtract" -> subtractOperands(currentValue, config)
    [] operation = "multiply" -> multiplyOperands(currentValue, config)
    [] operation = "divide" -> divideOperands(currentValue, config)

(***************************************************************************)
(* calculateResult: the quotient of a division is a fraction num/den until *)
(* Number.isInteger has accepted it                                        *)
(***************************************************************************)
\* calculateResult whose divide case multiplies (a copied case left unedited)
calculateResultCopied(value, operation, operand) ==
  CASE operation = "add" -> [num |-> value + operand, den |-> 1]
    [] operation = "subtract" -> [num |-> value - operand, den |-> 1]
    [] operation = "multiply" -> [num |-> value * operand, den |-> 1]
    [] operation = "divide" -> [num |-> value * operand, den |-> 1]

calculateResult(value, operation, operand) ==
  CASE operation = "add" -> [num |-> value + operand, den |-> 1]
    [] operation = "subtract" -> [num |-> value - operand, den |-> 1]
    [] operation = "multiply" -> [num |-> value * operand, den |-> 1]
    [] operation = "divide" -> [num |-> value, den |-> operand]

\* den > 0 wherever a fraction is compared (generateOperand returns divisors > 0)
LessThan(q, n) == q.num < n * q.den

GreaterThan(q, n) == q.num > n * q.den

isInteger(q) == q.den # 0 /\ q.num % q.den = 0

\* the number stored in Problem.result
Value(q) == q.num \div q.den

(***************************************************************************)
(* tryGenerateProblem: the set of outcomes, <<>> for null and <<p>> for a  *)
(* problem p (its id is drawn by the caller's step)                        *)
(***************************************************************************)
validResult(result, operation, config) ==
  /\ ~(LessThan(result, 1) /\ ~config.allowNegativeResults)
  /\ ~GreaterThan(result, config.maxResult)
  /\ ~(operation = "divide" /\ ~isInteger(result))

tryGenerateProblem(currentValue, operation, config) ==
  LET operands == generateOperand(operation, currentValue, config)
  IN IF operands = {} THEN { <<>> }
     ELSE { LET result == calculateResult(currentValue, operation, operand)
            IN IF validResult(result, operation, config)
               THEN << [startValue |-> currentValue, operation |-> operation,
                        operand |-> operand, result |-> Value(result)] >>
               ELSE <<>>
            : operand \in operands }

(***************************************************************************)
(* generateProblem's helpers                                               *)
(***************************************************************************)
\* program constant: maxAttempts default
maxAttempts == 20

\* a sort that is not stable: equal percentages come out in reverse order
PositionTiesReversed(mix, k) ==
  1 + Cardinality({ j \in 1..4 : \/ mix[Operations[j]] > mix[Operations[k]]
                                 \/ /\ mix[Operations[j]] = mix[Operations[k]]
                                    /\ j > k })

\* [...operations].sort((a, b) => mix[b] - mix[a]): descending, stable
Position(mix, k) ==
  1 + Cardinality({ j \in 1..4 : \/ mix[Operations[j]] > mix[Operations[k]]
                                 \/ /\ mix[Operations[j]] = mix[Operations[k]]
                                    /\ j < k })

sortedOps(mix) ==
  [ p \in 1..4 |-> Operations[CHOOSE k \in 1..4 : Position(mix, k) = p] ]

\* the narrowing with operands up to 10
simpleConfigWide(config) ==
  [config EXCEPT !.operations.add.minValue = 1,
                 !.operations.add.maxValue = 10,
                 !.operations.subtract.minValue = 1,
                 !.operations.subtract.maxValue = 10]

simpleConfig(config) ==
  [config EXCEPT !.operations.add.minValue = 1,
                 !.operations.add.maxValue = 5,
                 !.operations.subtract.minValue = 1,
                 !.operations.subtract.maxValue = 5]

(***************************************************************************)
(* generateChain's starting number                                         *)
(***************************************************************************)
goodStarts == {12, 18, 20, 24, 30, 36, 40, 48, 60, 72, 80, 90, 100}

hasHighMultDiv(config) ==
  config.operationMix.multiply + config.operationMix.divide >= 50

\* n <= maxResult / 2
filteredStarts(config) == { n \in goodStarts : 2 * n <= config.maxResult }

\* Math.floor(maxResult * 0.1) and Math.floor(maxResult * 0.4) as exact quotients
startingNumbers(config) ==
  IF hasHighMultDiv(config)
  THEN IF filteredStarts(config) # {}
       THEN filteredStarts(config)
       ELSE randomInt(10, Min(50, FloorDiv(config.maxResult, 3)))
  ELSE randomInt(Max(5, FloorDiv(config.maxResult, 10)),
                 Min(FloorDiv(config.maxResult * 4, 10), 100))

(***************************************************************************)
(* Configurations handed to generateWorksheet                              *)
(***************************************************************************)
\* DEFAULT_CONFIG.operations
DefaultOperations ==
  [add      |-> [minValue |-> 1, maxValue |-> 20],
   subtract |-> [minValue |-> 1, maxValue |-> 20],
   multiply |-> [minValue |-> 2, maxValue |-> 10],
   divide   |-> [minValue |-> 2, maxValue |-> 10]]

\* the operand bounds of difficulty level 1
Level1Operations ==
  [add      |-> [minValue |-> 1, maxValue |-> 5],
   subtract |-> [minValue |-> 1, maxValue |-> 5],
   multiply |-> [minValue |-> 2, maxValue |-> 2],
   divide   |-> [minValue |-> 2, maxValue |-> 2]]

\* a caller's bounds: add and subtract from 10 up (as the high levels have),
\* multiply and divide by 2
CoarseOperations ==
  [add      |-> [minValue |-> 10, maxValue |-> 100],
   subtract |-> [minValue |-> 10, maxValue |-> 100],
   multiply |-> [minValue |-> 2, maxValue |-> 2],
   divide   |-> [minValue |-> 2, maxValue |-> 2]]

\* a caller's bounds whose multiplier may be 0 or 1
UnitOperations ==
  [add      |-> [minValue |-> 1, maxValue |-> 20],
   subtract |-> [minValue |-> 1, maxValue |-> 20],
   multiply |-> [minValue |-> 0, maxValue |-> 1],
   divide   |-> [minValue |-> 2, maxValue |-> 10]]

\* DEFAULT_CONFIG.operationMix (the Basic preset)
DefaultMix == [add |-> 40, subtract |-> 40, multiply |-> 10, divide |-> 10]

\* the Expert preset of OperationMixSlider
ExpertMix == [add |-> 10, subtract |-> 10, multiply |-> 40, divide |-> 40]

\* the mixes of the generator's tests
DivideOnlyMix == [add |-> 0, subtract |-> 0, multiply |-> 0, divide |-> 100]

AddSubtractMix == [add |-> 50, subtract |-> 50, multiply |-> 0, divide |-> 0]

GameConfig(maxResult, chainLength, chainCount, allowNegativeResults, operations, mix) ==
  [maxResult |-> maxResult, chainLength |-> chainLength, chainCount |-> chainCount,
   allowNegativeResults |-> allowNegativeResults,
   operations |-> operations, operationMix |-> mix]

\* small maxResult, chains of 3, one chain per worksheet
SmallConfigs ==
  { GameConfig(r, 3, 1, FALSE, DefaultOperations, mix) :
      r \in 1..MaxSmallResult, mix \in {DefaultMix, DivideOnlyMix} }

\* negative results allowed
NegativeConfigs ==
  { GameConfig(1, 3, 1, TRUE, operations, DefaultMix) :
      operations \in {Level1Operations, CoarseOperations} }

\* chainLength below 3, and worksheets of no and of two chains
ShortConfigs ==
  { GameConfig(3, len, 1, FALSE, DefaultOperations, DefaultMix) :
      len \in 0..MaxShortLength }
    \cup { GameConfig(3, 2, 0, FALSE, DefaultOperations, DefaultMix),
           GameConfig(3, 1, 2, FALSE, DefaultOperations, DefaultMix) }

\* worksheets of two chains
TwoChainConfigs ==
  { GameConfig(24, 3, 2, FALSE, Level1Operations, DivideOnlyMix) }

\* a chain that can stop early: maxResult 1 with multipliers 0 and 1
UnitConfigs ==
  { GameConfig(1, 4, 1, FALSE, UnitOperations, mix) : mix \in {DefaultMix, ExpertMix} }

\* only the last-resort tier has a move at 3
CoarseConfigs ==
  { GameConfig(3, 3, 1, FALSE, CoarseOperations, DivideOnlyMix) }

\* add and subtract only, with a small maxResult: multiply and divide have
\* percentage 0
ZeroWeightConfigs ==
  { GameConfig(3, 3, 1, FALSE, DefaultOperations, AddSubtractMix) }

Configs ==
  SmallConfigs \cup NegativeConfigs \cup ShortConfigs \cup TwoChainConfigs
    \cup UnitConfigs \cup CoarseConfigs \cup ZeroWeightConfigs

\* the default operand bounds with maxResult from 20 up
DefaultBoundsConfigs ==
  { GameConfig(r, 3, 1, FALSE, DefaultOperations, mix) :
      r \in 20..MaxDefaultResult,
      mix \in {DefaultMix, DivideOnlyMix, AddSubtractMix} }

(***************************************************************************)
(* State of one generateWorksheet(config) call                             *)
(***************************************************************************)
VARIABLES
  config,         \* the argument
  idSpace,        \* the strings generateId's draws can produce in this run
  pc,             \* position in generateWorksheet / generateChain / generateProblem
  chains,         \* generateWorksheet: accepted chains
  attempts,       \* generateWorksheet: chain attempts made
  problems,       \* generateChain: problems so far
  startingNumber, \* generateChain
  currentValue,   \* generateChain
  i,              \* generateChain: loop index
  attempt,        \* generateProblem: weighted-random attempts made
  sortedIdx,      \* generateProblem: operations of sortedOps tried
  simpleTries,    \* generateProblem: last-resort attempts made
  chain,          \* what the last generateChain call returned: <<>> is null
  worksheet,      \* what generateWorksheet returned: <<>> until it has
  state,          \* gameReducer: the GameState of the provider
  dispatches,     \* gameReducer: actions dispatched so far
  action,         \* gameReducer: the action dispatched last, <<>> before any
  call            \* a single call of a pure function: its arguments and return

vars == <<config, idSpace, pc, chains, attempts, problems, startingNumber,
          currentValue, i, attempt, sortedIdx, simpleTries, chain, worksheet,
          state, dispatches, action, call>>

\* what a generateWorksheet call does not touch
outside == <<state, dispatches, action, call>>

\* the locals of a generateChain call (and of the generateProblem call inside it)
chainLocals == <<problems, startingNumber, currentValue, i, attempt, sortedIdx,
                 simpleTries>>

Start(configs, ids) ==
  /\ config \in configs
  /\ idSpace = ids
  /\ pc = "worksheet"
  /\ chains = <<>>
  /\ attempts = 0
  /\ problems = <<>>
  /\ startingNumber = 0
  /\ currentValue = 0
  /\ i = 0
  /\ attempt = 0
  /\ sortedIdx = 0
  /\ simpleTries = 0
  /\ chain = <<>>
  /\ worksheet = <<>>

\* no reducer and no single call beside the generateWorksheet call
Alone ==
  /\ state = <<>>
  /\ dispatches = 0
  /\ action = <<>>
  /\ call = <<>>

\* runs under the default bounds are explored for one outcome of generateId
Init ==
  /\ Alone
  /\ \/ Start(Configs, 1..NumIds)
     \/ Start(DefaultBoundsConfigs, {1})

\* generateId(): one draw
generateId == idSpace

\* the for loop with i <= chainLength
LoopHeadInclusive(index) ==
  IF index <= config.chainLength THEN "random" ELSE "chainReturn"

\* the for loop of generateChain: call generateProblem or fall out of the loop
LoopHead(index) == IF index < config.chainLength THEN "random" ELSE "chainReturn"

\* generateWorksheet's while test succeeds: generateChain starts and draws its
\* starting number
BeginChain ==
  /\ pc = "worksheet"
  /\ Len(chains) < config.chainCount
  /\ attempts < config.chainCount * 3
  /\ \E start \in startingNumbers(config) :
       /\ currentValue' = start
       /\ startingNumber' = start
  /\ problems' = <<>>
  /\ i' = 0
  /\ attempt' = 0
  /\ sortedIdx' = 0
  /\ simpleTries' = 0
  /\ pc' = LoopHead(0)
  /\ UNCHANGED <<outside, config, idSpace, chains, attempts, chain, worksheet>>

\* generateChain forgets to advance: the next problem starts where this one did
staleValue(p) == p.startValue

\* generateChain: currentValue = problem.result
nextValue(p) == p.result

\* generateChain: problems.push(problem); currentValue = problem.result; i++
\* (the problem's id is a generateId draw of tryGenerateProblem)
Push(p) ==
  /\ \E id \in generateId :
       problems' = Append(problems,
                          [id |-> id, startValue |-> p.startValue,
                           operation |-> p.operation, operand |-> p.operand,
                           result |-> p.result])
  /\ currentValue' = nextValue(p)
  /\ i' = i + 1
  /\ attempt' = 0
  /\ sortedIdx' = 0
  /\ simpleTries' = 0
  /\ pc' = LoopHead(i + 1)
  /\ UNCHANGED <<outside, idSpace, chains, attempts, startingNumber, chain,
                 worksheet>>

\* generateProblem tier 1: one weighted-random attempt
RandomAttempt ==
  /\ pc = "random"
  /\ attempt < maxAttempts
  /\ \E operation \in selectableOperations(config.operationMix) :
       \E outcome \in tryGenerateProblem(currentValue, operation, config) :
         IF outcome # <<>>
         THEN Push(outcome[1]) /\ UNCHANGED config
         ELSE /\ attempt' = attempt + 1
              /\ pc' = IF attempt + 1 < maxAttempts THEN "random" ELSE "priority"
              /\ UNCHANGED <<outside, config, idSpace, chains, attempts, problems,
                             startingNumber, currentValue, i, sortedIdx,
                             simpleTries, chain, worksheet>>

\* generateProblem tier 2: the next operation of sortedOps
PriorityAttempt ==
  /\ pc = "priority"
  /\ sortedIdx < 4
  /\ \E outcome \in tryGenerateProblem(currentValue,
                      sortedOps(config.operationMix)[sortedIdx + 1], config) :
       IF outcome # <<>>
       THEN Push(outcome[1]) /\ UNCHANGED config
       ELSE /\ sortedIdx' = sortedIdx + 1
            /\ pc' = IF sortedIdx + 1 < 4 THEN "priority" ELSE "lastResort"
            /\ UNCHANGED <<outside, config, idSpace, chains, attempts, problems,
                           startingNumber, currentValue, i, attempt, simpleTries,
                           chain, worksheet>>

\* simpleConfig written into the caller's object instead of a copy
narrowedInPlace(cfg) == simpleConfig(cfg)

\* the caller's config once simpleConfig is built: the spreads copy, config is
\* not written
afterSimpleConfig(cfg) == cfg

\* generateProblem tier 3: add, then subtract, with operands 1..5; when both
\* fail generateProblem returns null
LastResortAttempt ==
  /\ pc = "lastResort"
  /\ simpleTries < 2
  /\ config' = afterSimpleConfig(config)
  /\ \E outcome \in tryGenerateProblem(currentValue,
                      <<"add", "subtract">>[simpleTries + 1], simpleConfig(config)) :
       IF outcome # <<>>
       THEN Push(outcome[1])
       ELSE /\ simpleTries' = simpleTries + 1
            /\ pc' = IF simpleTries + 1 < 2 THEN "lastResort" ELSE "failed"
            /\ UNCHANGED <<outside, idSpace, chains, attempts, problems,
                           startingNumber, currentValue, i, attempt, sortedIdx,
                           chain, worksheet>>

\* generateChain, if (!problem): break with 3 or more problems, return null
\* otherwise
\* generateChain keeps a chain of 2 (an off-by-one threshold)
breaksOutEarly(n) == n >= 2

breaksOut(n) == n >= 3

\* generateChain without the break: a failed step always returns null
StepFailedReturnsNull ==
  /\ pc = "failed"
  /\ chain' = <<>>
  /\ pc' = "accept"
  /\ problems' = <<>>
  /\ startingNumber' = 0
  /\ currentValue' = 0
  /\ i' = 0
  /\ attempt' = 0
  /\ sortedIdx' = 0
  /\ simpleTries' = 0
  /\ UNCHANGED <<outside, config, idSpace, chains, attempts, worksheet>>

StepFailed ==
  /\ pc = "failed"
  /\ IF breaksOut(Len(problems))
     THEN /\ pc' = "chainReturn"
          /\ UNCHANGED <<chainLocals, chain>>
     ELSE /\ chain' = <<>>
          /\ pc' = "accept"
          /\ problems' = <<>>
          /\ startingNumber' = 0
          /\ currentValue' = 0
          /\ i' = 0
          /\ attempt' = 0
          /\ sortedIdx' = 0
          /\ simpleTries' = 0
  /\ UNCHANGED <<outside, config, idSpace, chains, attempts, worksheet>>

\* generateChain returns: null for an empty list, the chain otherwise; its
\* locals are gone
ChainReturn ==
  /\ pc = "chainReturn"
  /\ IF Len(problems) = 0
     THEN chain' = <<>>
     ELSE \E id \in generateId :
            chain' = << [id |-> id, problems |-> problems,
                         startingNumber |-> startingNumber] >>
  /\ pc' = "accept"
  /\ problems' = <<>>
  /\ startingNumber' = 0
  /\ currentValue' = 0
  /\ i' = 0
  /\ attempt' = 0
  /\ sortedIdx' = 0
  /\ simpleTries' = 0
  /\ UNCHANGED <<outside, config, idSpace, chains, attempts, worksheet>>

\* generateWorksheet: keep the chain if it has 3 or more problems; attempts++
\* generateWorksheet drops the length test
acceptsAny(c) == c # <<>>

acceptable(c) == c # <<>> /\ Len(c[1].problems) >= 3

\* generateWorksheet without attempts++
AcceptChainUncounted ==
  /\ pc = "accept"
  /\ chains' = IF acceptable(chain) THEN Append(chains, chain[1]) ELSE chains
  /\ chain' = <<>>
  /\ pc' = "worksheet"
  /\ UNCHANGED <<outside, config, idSpace, attempts, chainLocals, worksheet>>

AcceptChain ==
  /\ pc = "accept"
  /\ chains' = IF acceptable(chain) THEN Append(chains, chain[1]) ELSE chains
  /\ attempts' = attempts + 1
  /\ chain' = <<>>
  /\ pc' = "worksheet"
  /\ UNCHANGED <<outside, config, idSpace, chainLocals, worksheet>>

\* generateWorksheet's while test fails: the worksheet is returned
WorksheetReturn ==
  /\ pc = "worksheet"
  /\ ~(Len(chains) < config.chainCount /\ attempts < config.chainCount * 3)
  /\ \E id \in generateId :
       worksheet' = << [id |-> id, chains |-> chains, config |-> config] >>
  /\ pc' = "done"
  /\ UNCHANGED <<outside, config, idSpace, chains, attempts, chainLocals, chain>>

Next ==
  \/ BeginChain
  \/ RandomAttempt
  \/ PriorityAttempt
  \/ LastResortAttempt
  \/ StepFailed
  \/ ChainReturn
  \/ AcceptChain
  \/ WorksheetReturn

Spec == Init /\ [][Next]_vars

(***************************************************************************)
(* generateWorksheet as one call: the set of values it can return, for the *)
(* reducer, which calls it inside one dispatch. Ids are given afterwards,  *)
(* from the draws of generateId in the order the returned objects hold     *)
(* them.                                                                   *)
(***************************************************************************)
\* tryGenerateProblem can return null / the problems it can return
noProblem(value, operation, cfg) ==
  <<>> \in tryGenerateProblem(value, operation, cfg)

problemsOf(value, operation, cfg) ==
  { outcome[1] : outcome \in tryGenerateProblem(value, operation, cfg) \ { <<>> } }

\* generateProblem: the outcomes, <<>> for null and <<p>> for a problem.
\* All maxAttempts weighted-random attempts can fail when one can (each is an
\* independent draw); an operation of sortedOps is reached when those before it
\* can all fail.
generateProblemResults(value, cfg) ==
  LET selectable == selectableOperations(cfg.operationMix)
      sorted == sortedOps(cfg.operationMix)
      tier1 == UNION { problemsOf(value, operation, cfg) : operation \in selectable }
      randomTierFails == \E operation \in selectable : noProblem(value, operation, cfg)
      priorityFails == [n \in 0..4 |-> \A q \in 1..n : noProblem(value, sorted[q], cfg)]
      tier2 == IF randomTierFails
               THEN UNION { IF priorityFails[p - 1]
                            THEN problemsOf(value, sorted[p], cfg)
                            ELSE {} : p \in 1..4 }
               ELSE {}
      reached == randomTierFails /\ priorityFails[4]
      addFails == noProblem(value, "add", simpleConfig(cfg))
      tier3 == IF ~reached THEN {}
               ELSE problemsOf(value, "add", simpleConfig(cfg))
                      \cup (IF addFails
                            THEN problemsOf(value, "subtract", simpleConfig(cfg))
                            ELSE {})
      null == reached /\ addFails /\ noProblem(value, "subtract", simpleConfig(cfg))
  IN { <<p>> : p \in tier1 \cup tier2 \cup tier3 } \cup (IF null THEN { <<>> } ELSE {})

\* generateChain's loop from currentValue = value with the problems built so far:
\* the lists it can end with, <<>> for the return null of line 316
RECURSIVE chainLoop(_, _, _)
chainLoop(value, built, cfg) ==
  IF ~(Len(built) < cfg.chainLength)
  THEN { <<built>> }
  ELSE UNION { IF outcome = <<>>
               THEN (IF breaksOut(Len(built)) THEN { <<built>> } ELSE { <<>> })
               ELSE chainLoop(nextValue(outcome[1]), Append(built, outcome[1]), cfg)
               : outcome \in generateProblemResults(value, cfg) }

\* generateChain: the chains it can return (ids not yet given), <<>> for null
generateChainResults(cfg) ==
  UNION { { IF ended = <<>> \/ Len(ended[1]) = 0 THEN <<>>
            ELSE << [problems |-> ended[1], startingNumber |-> start] >>
            : ended \in chainLoop(start, <<>>, cfg) }
          : start \in startingNumbers(cfg) }

\* generateWorksheet's loop with the chains accepted and the attempts made so
\* far; returned is what a generateChain(config) call can return
RECURSIVE worksheetLoop(_, _, _, _)
worksheetLoop(accepted, made, cfg, returned) ==
  IF Len(accepted) < cfg.chainCount /\ made < cfg.chainCount * 3
  THEN UNION { worksheetLoop(IF acceptable(c) THEN Append(accepted, c[1]) ELSE accepted,
                             made + 1, cfg, returned)
               : c \in returned }
  ELSE { accepted }

\* the number of ids held by the chains before chain c
RECURSIVE idsBefore(_, _)
idsBefore(cs, c) ==
  IF c <= 1 THEN 0 ELSE idsBefore(cs, c - 1) + Len(cs[c - 1].problems) + 1

\* outcomes of the generateId draws of one call: all different, or the second
\* draw repeating the first
idOutcomes == {"distinct", "repeated"}

\* the k-th id drawn
idDraw(drawn, k) == IF drawn = "repeated" /\ k = 2 THEN 1 ELSE k

\* the chains with the 1st, 2nd, ... id drawn, in the order problems and chains
\* were made, and the worksheet with the last one
withIds(cs, cfg, drawn) ==
  [id |-> idDraw(drawn, idsBefore(cs, Len(cs) + 1) + 1),
   chains |->
     [c \in 1..Len(cs) |->
        [id |-> idDraw(drawn, idsBefore(cs, c + 1)),
         startingNumber |-> cs[c].startingNumber,
         problems |->
           [k \in 1..Len(cs[c].problems) |->
              [id |-> idDraw(drawn, idsBefore(cs, c) + k),
               startValue |-> cs[c].problems[k].startValue,
               operation |-> cs[c].problems[k].operation,
               operand |-> cs[c].problems[k].operand,
               result |-> cs[c].problems[k].result]]]],
   config |-> cfg]

generateWorksheetResults(cfg) ==
  { withIds(cs, cfg, drawn) :
      cs \in worksheetLoop(<<>>, 0, cfg, generateChainResults(cfg)),
      drawn \in idOutcomes }

(***************************************************************************)
(* gameReducer (contexts/GameContext): GameState and the pure cases        *)
(* A nullable field is <<>> for null and <<v>> for v; a Date is "date";    *)
(* answers is the Map as a function from problem ids. Of UserStats the     *)
(* fields END_SESSION computes are kept; it copies the others.             *)
(***************************************************************************)
DEFAULT_CONFIG == GameConfig(100, 6, 5, FALSE, DefaultOperations, DefaultMix)

\* averageAccuracy is kept exact, as the fraction num/den
initialStats ==
  [totalSessions |-> 0, totalProblems |-> 0, correctAnswers |-> 0,
   averageAccuracy |-> [num |-> 0, den |-> 1], lastSessionDate |-> <<>>]

initialState ==
  [mode |-> "live", config |-> DEFAULT_CONFIG, worksheet |-> <<>>,
   session |-> <<>>, answers |-> <<>>, isPlaying |-> FALSE, isPaused |-> FALSE,
   showSolutions |-> FALSE, activeChainIndex |-> 0, activeInputIndex |-> 0,
   stats |-> initialStats, userProfile |-> "adult",
   lastCompletedChainIndex |-> <<>>]

\* the (correct, total) pairs up to a total of 400 for which 100 * correct / total
\* is k + 0.5 exactly while the double (correct / total) * 100 lies just below it
belowTie ==
  { <<23, 40>>, <<46, 80>>, <<69, 120>>, <<92, 160>>, <<29, 200>>, <<57, 200>>,
    <<113, 200>>, <<115, 200>>, <<138, 240>>, <<161, 280>>, <<184, 320>>,
    <<207, 360>> }

\* Math.round((correct / total) * 100) in double arithmetic, for total in 1..400
roundedPercentage(correct, total) ==
  IF <<correct, total>> \in belowTie
  THEN (200 * correct + total) \div (2 * total) - 1
  ELSE (200 * correct + total) \div (2 * total)

calculateScore(answers) ==
  LET correct == Cardinality({ k \in DOMAIN answers : answers[k].isCorrect = TRUE })
      incorrect == Cardinality({ k \in DOMAIN answers : answers[k].isCorrect = FALSE })
      total == correct + incorrect
  IN [correct |-> correct, incorrect |-> incorrect, total |-> total,
      percentage |-> IF total > 0 THEN roundedPercentage(correct, total) ELSE 0]

\* { ...state.config, ...action.config }
merged(cfg, partial) ==
  [f \in DOMAIN cfg |-> IF f \in DOMAIN partial THEN partial[f] ELSE cfg[f]]

SET_MODE(s, mode) == [s EXCEPT !.mode = mode]

SET_CONFIG(s, partial) == [s EXCEPT !.config = merged(s.config, partial)]

SET_OPERATION_MIX(s, mix) == [s EXCEPT !.config.operationMix = mix]

SET_USER_PROFILE(s, profile) == [s EXCEPT !.userProfile = profile]

\* GENERATE_WORKSHEET without answers: new Map() and session: null
keepsAnswers(s, generated) ==
  [s EXCEPT !.worksheet = <<generated>>, !.showSolutions = FALSE,
            !.activeChainIndex = 0, !.activeInputIndex = 0, !.isPlaying = FALSE]

\* with the worksheet generateWorksheet(state.config) returned
GENERATE_WORKSHEET(s, generated) ==
  [s EXCEPT !.worksheet = <<generated>>, !.answers = <<>>,
            !.showSolutions = FALSE, !.activeChainIndex = 0,
            !.activeInputIndex = 0, !.isPlaying = FALSE, !.session = <<>>]

\* with the id drawn for the session
START_SESSION(s, id) ==
  IF s.worksheet = <<>> THEN s
  ELSE [s EXCEPT
          !.session = << [id |-> id, worksheet |-> s.worksheet[1],
                          answers |-> <<>>, startedAt |-> "date",
                          endedAt |-> <<>>, isComplete |-> FALSE,
                          score |-> [correct |-> 0, incorrect |-> 0, total |-> 0,
                                     percentage |-> 0]] >>,
          !.isPlaying = TRUE, !.isPaused = FALSE, !.activeChainIndex = 0,
          !.activeInputIndex = 0, !.answers = <<>>]

\* END_SESSION that completes the session and leaves isPlaying as it was
endsStillPlaying(s) ==
  IF s.session = <<>> THEN s
  ELSE [s EXCEPT !.session = << [s.session[1] EXCEPT !.answers = s.answers,
                                                     !.endedAt = <<"date">>,
                                                     !.isComplete = TRUE] >>]

END_SESSION(s) ==
  IF s.session = <<>> THEN s
  ELSE LET score == calculateScore(s.answers)
           n == s.stats.totalSessions
           average == s.stats.averageAccuracy
       IN [s EXCEPT
             !.session = << [s.session[1] EXCEPT !.answers = s.answers,
                                                 !.endedAt = <<"date">>,
                                                 !.isComplete = TRUE,
                                                 !.score = score] >>,
             !.isPlaying = FALSE,
             !.stats = [totalSessions |-> n + 1,
                        totalProblems |-> s.stats.totalProblems + score.total,
                        correctAnswers |-> s.stats.correctAnswers + score.correct,
                        averageAccuracy |->
                          IF n > 0
                          THEN [num |-> average.num * n + score.percentage * average.den,
                                den |-> average.den * (n + 1)]
                          ELSE [num |-> score.percentage, den |-> 1],
                        lastSessionDate |-> <<"date">>]]

PAUSE_SESSION(s) == [s EXCEPT !.isPaused = TRUE]

RESUME_SESSION(s) == [s EXCEPT !.isPaused = FALSE]

\* the places <<chain, problem>> of the worksheet's problems with this id
placesOf(sheet, problemId) ==
  UNION { { <<c, k>> : k \in { j \in 1..Len(sheet.chains[c].problems) :
                                 sheet.chains[c].problems[j].id = problemId } }
          : c \in 1..Len(sheet.chains) }

\* the loop over the chains with find: the first problem in the first chain
\* that has one with this id; <<>> when correctResult stays null
correctResult(sheet, problemId) ==
  LET places == placesOf(sheet, problemId)
  IN IF places = {} THEN <<>>
     ELSE LET first == CHOOSE pl \in places :
                         \A other \in places :
                           \/ pl[1] < other[1]
                           \/ pl[1] = other[1] /\ pl[2] <= other[2]
          IN << sheet.chains[first[1]].problems[first[2]].result >>

\* newAnswers.set(problemId, answer)
withAnswer(answers, problemId, answer) ==
  [k \in DOMAIN answers \cup {problemId} |->
     IF k = problemId THEN answer ELSE answers[k]]

\* SUBMIT_ANSWER without the return on an id no problem has: the number is
\* compared with null and recorded as incorrect
recordsUnknownId(s, problemId, answer) ==
  IF s.worksheet = <<>> THEN s
  ELSE [s EXCEPT !.answers =
          withAnswer(s.answers, problemId,
                     [problemId |-> problemId, userAnswer |-> answer,
                      isCorrect |-> <<answer>> = correctResult(s.worksheet[1], problemId),
                      answeredAt |-> "date"])]

SUBMIT_ANSWER(s, problemId, answer) ==
  IF s.worksheet = <<>> THEN s
  ELSE IF correctResult(s.worksheet[1], problemId) = <<>> THEN s
  ELSE [s EXCEPT !.answers =
          withAnswer(s.answers, problemId,
                     [problemId |-> problemId, userAnswer |-> answer,
                      isCorrect |-> answer = correctResult(s.worksheet[1], problemId)[1],
                      answeredAt |-> "date"])]

SET_ACTIVE_CHAIN(s, chainIndex) ==
  [s EXCEPT !.activeChainIndex = chainIndex, !.activeInputIndex = 0]

SET_ACTIVE_INPUT(s, inputIndex) == [s EXCEPT !.activeInputIndex = inputIndex]

\* NEXT_CHAIN without the test for a next chain
advancesPastLast(s) ==
  IF s.worksheet = <<>> THEN s
  ELSE [s EXCEPT !.activeChainIndex = s.activeChainIndex + 1,
                 !.activeInputIndex = 0,
                 !.lastCompletedChainIndex = <<s.activeChainIndex>>]

NEXT_CHAIN(s) ==
  IF s.worksheet = <<>> THEN s
  ELSE IF s.activeChainIndex + 1 >= Len(s.worksheet[1].chains)
  THEN [s EXCEPT !.lastCompletedChainIndex = <<s.activeChainIndex>>]
  ELSE [s EXCEPT !.activeChainIndex = s.activeChainIndex + 1,
                 !.activeInputIndex = 0,
                 !.lastCompletedChainIndex = <<s.activeChainIndex>>]

CLEAR_CHAIN_COMPLETION(s) == [s EXCEPT !.lastCompletedChainIndex = <<>>]

TOGGLE_SOLUTIONS(s) == [s EXCEPT !.showSolutions = ~s.showSolutions]

\* RESET that also keeps userProfile
keepsUserProfile(s) ==
  [initialState EXCEPT !.stats = s.stats, !.mode = s.mode, !.config = s.config,
                       !.userProfile = s.userProfile]

RESET(s) ==
  [initialState EXCEPT !.stats = s.stats, !.mode = s.mode, !.config = s.config]

\* the provider has no function that dispatches this one
LOAD_STATS(s, stats) == [s EXCEPT !.stats = stats]

\* getTotalProblems: the reduce over the chains
RECURSIVE sumOfLengths(_, _)
sumOfLengths(cs, n) ==
  IF n = 0 THEN 0 ELSE sumOfLengths(cs, n - 1) + Len(cs[n].problems)

getTotalProblems(sheet) == sumOfLengths(sheet.chains, Len(sheet.chains))

isAllChainsComplete(s) ==
  IF s.worksheet = <<>> THEN FALSE
  ELSE Cardinality(DOMAIN s.answers) >= getTotalProblems(s.worksheet[1])

(***************************************************************************)
(* The provider: useReducer(gameReducer, initialState) and the actions     *)
(* dispatched to it                                                        *)
(***************************************************************************)
\* at most MaxDispatches actions are dispatched
MaxDispatches == 4
\* play starts with a chainCount in 1..MaxChains
MaxChains == 2
\* answers are submitted for the ids 1..MaxSubmitId
MaxSubmitId == 3

\* a caller's bounds that leave every step one operand
HalvingOperations ==
  [add      |-> [minValue |-> 1, maxValue |-> 1],
   subtract |-> [minValue |-> 1, maxValue |-> 1],
   multiply |-> [minValue |-> 2, maxValue |-> 2],
   divide   |-> [minValue |-> 2, maxValue |-> 2]]

MultiplyOnlyMix == [add |-> 0, subtract |-> 0, multiply |-> 100, divide |-> 0]

\* the configurations play starts from: the chain is 12 / 2 = 6, 6 / 2 = 3,
\* 3 + 1 = 4, and 12 * 2 = 24, 24 - 1 = 23, 23 + 1 = 24 under the multiply mix
PlayConfigs ==
  { GameConfig(24, 3, n, FALSE, HalvingOperations, DivideOnlyMix) : n \in 1..MaxChains }

\* what the actions carry
Modes == {"print"}

Profiles == {"kid"}

Partials == { [chainCount |-> 0] }

Mixes == {MultiplyOnlyMix}

SubmitIds == 1..MaxSubmitId

SubmittedAnswers == {3, 24}

ChainIndexes == {MaxChains}

InputIndexes == {1}

\* Math.random().toString(36).substring(2, 11) of START_SESSION: one outcome
sessionIds == {"s"}

\* no generateWorksheet call of its own is under way
NoCall ==
  /\ config = <<>>
  /\ idSpace = {}
  /\ pc = "idle"
  /\ chains = <<>>
  /\ attempts = 0
  /\ problems = <<>>
  /\ startingNumber = 0
  /\ currentValue = 0
  /\ i = 0
  /\ attempt = 0
  /\ sortedIdx = 0
  /\ simpleTries = 0
  /\ chain = <<>>
  /\ worksheet = <<>>

\* the provider is mounted; the configuration has been set to one of PlayConfigs
GameInit ==
  /\ NoCall
  /\ call = <<>>
  /\ dispatches = 0
  /\ action = <<>>
  /\ \E cfg \in PlayConfigs : state = [initialState EXCEPT !.config = cfg]

\* dispatch(a): the reducer's return value becomes the state
Dispatch(a, next) ==
  /\ dispatches < MaxDispatches
  /\ state' = next
  /\ action' = <<a>>
  /\ dispatches' = dispatches + 1
  /\ UNCHANGED <<config, idSpace, pc, chains, attempts, chainLocals, chain,
                 worksheet, call>>

SetMode ==
  \E mode \in Modes :
    Dispatch([type |-> "SET_MODE", mode |-> mode], SET_MODE(state, mode))

SetConfig ==
  \E partial \in Partials :
    Dispatch([type |-> "SET_CONFIG", config |-> partial], SET_CONFIG(state, partial))

SetOperationMix ==
  \E mix \in Mixes :
    Dispatch([type |-> "SET_OPERATION_MIX", mix |-> mix],
             SET_OPERATION_MIX(state, mix))

SetUserProfile ==
  \E profile \in Profiles :
    Dispatch([type |-> "SET_USER_PROFILE", profile |-> profile],
             SET_USER_PROFILE(state, profile))

GenerateNewWorksheet ==
  \E generated \in generateWorksheetResults(state.config) :
    Dispatch([type |-> "GENERATE_WORKSHEET"], GENERATE_WORKSHEET(state, generated))

StartSession ==
  \E id \in sessionIds :
    Dispatch([type |-> "START_SESSION"], START_SESSION(state, id))

EndSession == Dispatch([type |-> "END_SESSION"], END_SESSION(state))

PauseSession == Dispatch([type |-> "PAUSE_SESSION"], PAUSE_SESSION(state))

ResumeSession == Dispatch([type |-> "RESUME_SESSION"], RESUME_SESSION(state))

SubmitAnswer ==
  \E problemId \in SubmitIds, answer \in SubmittedAnswers :
    Dispatch([type |-> "SUBMIT_ANSWER", problemId |-> problemId, answer |-> answer],
             SUBMIT_ANSWER(state, problemId, answer))

SetActiveChain ==
  \E chainIndex \in ChainIndexes :
    Dispatch([type |-> "SET_ACTIVE_CHAIN", chainIndex |-> chainIndex],
             SET_ACTIVE_CHAIN(state, chainIndex))

SetActiveInput ==
  \E inputIndex \in InputIndexes :
    Dispatch([type |-> "SET_ACTIVE_INPUT", inputIndex |-> inputIndex],
             SET_ACTIVE_INPUT(state, inputIndex))

NextChain == Dispatch([type |-> "NEXT_CHAIN"], NEXT_CHAIN(state))

ToggleSolutions == Dispatch([type |-> "TOGGLE_SOLUTIONS"], TOGGLE_SOLUTIONS(state))

Reset == Dispatch([type |-> "RESET"], RESET(state))

ClearChainCompletion ==
  Dispatch([type |-> "CLEAR_CHAIN_COMPLETION"], CLEAR_CHAIN_COMPLETION(state))

GameNext ==
  \/ SetMode
  \/ SetConfig
  \/ SetOperationMix
  \/ SetUserProfile
  \/ GenerateNewWorksheet
  \/ StartSession
  \/ EndSession
  \/ PauseSession
  \/ ResumeSession
  \/ SubmitAnswer
  \/ SetActiveChain
  \/ SetActiveInput
  \/ NextChain
  \/ ToggleSolutions
  \/ Reset
  \/ ClearChainCompletion

GameSpec == GameInit /\ [][GameNext]_vars

(***************************************************************************)
(* What is observed of a run                                               *)
(***************************************************************************)
\* the chain a generateChain call has just returned (none: null or no return yet)
Returned == IF pc = "accept" THEN chain ELSE <<>>

\* every chain handed out: just returned, accepted so far, or in the worksheet
ChainsOut ==
  { Returned[k] : k \in 1..Len(Returned) }
    \cup { chains[k] : k \in 1..Len(chains) }
    \cup (IF worksheet = <<>> THEN {}
          ELSE { worksheet[1].chains[k] : k \in 1..Len(worksheet[1].chains) })

ProblemsOf(c) == { c.problems[k] : k \in 1..Len(c.problems) }

Distinct(seq) == \A j, k \in 1..Len(seq) : j # k => seq[j].id # seq[k].id

\* C1: in every chain returned by generateChain and every chain of a worksheet,
\* problems[0].startValue is startingNumber and each later problem starts from
\* the result of the one before it
ChainContinuity ==
  \A c \in ChainsOut :
    \A k \in 1..Len(c.problems) :
      c.problems[k].startValue =
        IF k = 1 THEN c.startingNumber ELSE c.problems[k - 1].result

\* a returned worksheet holds a chain of 3 problems whose value moved at every step
ChainContinuityWitness ==
  /\ pc = "done"
  /\ \E k \in 1..Len(worksheet[1].chains) :
       LET c == worksheet[1].chains[k]
       IN /\ Len(c.problems) = 3
          /\ \A j \in 1..3 : c.problems[j].result # c.problems[j].startValue

\* the result of p is inside the bounds of the configuration
InBounds(p) ==
  /\ p.result <= config.maxResult
  /\ IF config.allowNegativeResults
     THEN p.result >= 0 - config.maxResult
     ELSE p.result >= 1

\* C2: every problem of every generated chain has 1 <= result <= maxResult when
\* negative results are not allowed and -maxResult <= result <= maxResult when
\* they are, whichever tier produced it
BoundsInvariant ==
  /\ \A c \in ChainsOut : \A p \in ProblemsOf(c) : InBounds(p)
  /\ \A k \in 1..Len(problems) : InBounds(problems[k])

\* a returned chain, negative results allowed, holds a subtraction that only the
\* last-resort tier can have made (its operand is below the configured minimum)
\* and whose result is -maxResult
BoundsInvariantWitness ==
  /\ pc = "accept"
  /\ chain # <<>>
  /\ config.allowNegativeResults
  /\ \E p \in ProblemsOf(chain[1]) :
       /\ p.operation = "subtract"
       /\ p.operand < config.operations.subtract.minValue
       /\ p.result = 0 - config.maxResult

\* a division p divides a positive startValue exactly
CleanDivision(p) ==
  p.operation = "divide" =>
    /\ p.startValue > 0
    /\ p.operand > 0
    /\ p.startValue % p.operand = 0
    /\ p.result * p.operand = p.startValue

\* C3: every generated division, a 100% divide mix included, has startValue > 0,
\* an operand that divides startValue exactly, and the integer quotient as its
\* result
DivisionIntegrality ==
  /\ \A c \in ChainsOut : \A p \in ProblemsOf(c) : CleanDivision(p)
  /\ \A k \in 1..Len(problems) : CleanDivision(problems[k])

\* a returned chain of a 100% divide mix holds a division with a quotient above 1
DivisionIntegrityWitness ==
  /\ pc = "accept"
  /\ chain # <<>>
  /\ config.operationMix.divide = 100
  /\ \E p \in ProblemsOf(chain[1]) : p.operation = "divide" /\ p.result > 1

\* C4 as stated: whatever chainLength is, generateChain never returns a chain
\* of fewer than 3 problems
MinimumViableChainAnyLength ==
  Returned # <<>> => Len(Returned[1].problems) >= 3

\* C4 amended: with chainLength >= 3 a returned chain has at least 3 problems;
\* with chainLength below 3 a returned chain has exactly chainLength problems
MinimumViableChain ==
  Returned # <<>> =>
    IF config.chainLength >= 3
    THEN Len(Returned[1].problems) >= 3
    ELSE Len(Returned[1].problems) = config.chainLength

\* a chain of 4 was asked for, a step failed after 3 problems, and the chain of
\* 3 is returned
MinimumViableChainWitness ==
  /\ Returned # <<>>
  /\ config.chainLength > 3
  /\ Len(Returned[1].problems) = 3

\* C5: generateWorksheet returns a worksheet of at most chainCount chains, each
\* of at least 3 problems; a returned chain of fewer than 3 problems is left out
WorksheetChainCountBound ==
  /\ pc = "done" => worksheet # <<>>
  /\ Len(chains) <= config.chainCount
  /\ \A k \in 1..Len(chains) : Len(chains[k].problems) >= 3
  /\ worksheet # <<>> =>
       /\ Len(worksheet[1].chains) <= config.chainCount
       /\ \A k \in 1..Len(worksheet[1].chains) :
            Len(worksheet[1].chains[k].problems) >= 3

\* a worksheet returned after every attempt gave a chain of 2 problems, which
\* were all left out
WorksheetChainCountBoundWitness ==
  /\ pc = "done"
  /\ config.chainLength = 2
  /\ config.chainCount = 1
  /\ attempts = 3
  /\ worksheet[1].chains = <<>>

(***************************************************************************)
(* Termination                                                             *)
(***************************************************************************)
\* a generateChain call is under way
InChain == pc \in {"random", "priority", "lastResort", "failed", "chainReturn"}

\* the ceilings of the three loops and of the fallback ladder
Bounded ==
  /\ attempts <= config.chainCount * 3
  /\ InChain => attempts < config.chainCount * 3 /\ Len(chains) < config.chainCount
  /\ Len(chains) <= config.chainCount
  /\ pc = "worksheet" /\ Len(chains) = config.chainCount => ~ENABLED BeginChain
  /\ i <= config.chainLength
  /\ Len(problems) = i
  /\ attempt <= maxAttempts
  /\ sortedIdx <= 4
  /\ simpleTries <= 2
  /\ sortedIdx > 0 => attempt = maxAttempts
  /\ simpleTries > 0 => sortedIdx = 4

\* steps one generateProblem call can take, and one generateChain call with
\* its acceptance
PerProblem == maxAttempts + 4 + 2

PerChain == config.chainLength * PerProblem + 4

\* steps left inside the generateChain call under way
RankInChain ==
  CASE pc = "accept" -> 1
    [] pc = "chainReturn" -> 2
    [] pc = "failed" -> 3
    [] OTHER -> (config.chainLength - i - 1) * PerProblem
                  + (PerProblem - attempt - sortedIdx - simpleTries) + 3

\* a bound on the steps left before generateWorksheet returns
Rank ==
  CASE pc = "done" -> 0
    [] pc = "worksheet" -> (config.chainCount * 3 - attempts) * PerChain + 1
    [] OTHER -> (config.chainCount * 3 - attempts - 1) * PerChain + 1 + RankInChain

\* C6: generateWorksheet terminates; it makes at most chainCount*3 generateChain
\* calls and none once chainCount chains are accepted; a chain attempt runs at
\* most chainLength steps; a step makes at most 20 weighted-random attempts,
\* then at most 4 priority attempts, then at most 2 last-resort attempts.
\* Termination: every step lowers Rank, Rank never goes below 0, and only the
\* returned call has no step left, so the call returns after at most Rank steps
BoundedTermination ==
  /\ []Bounded
  /\ [](Rank >= 0)
  /\ [][Rank' < Rank]_vars
  /\ [](pc = "done" \/ ENABLED Next)

\* the worksheet is returned with the attempt budget used up and a chain short
BoundedTerminationWitness ==
  /\ pc = "done"
  /\ config.chainCount > 0
  /\ attempts = config.chainCount * 3
  /\ Len(worksheet[1].chains) < config.chainCount

(***************************************************************************)
(* Fallback completeness, default bounds, ids, starting number             *)
(***************************************************************************)
\* operand makes a problem of the operation that passes tryGenerateProblem's
\* validation and stays at or above -maxResult
ValidProblem(value, operation, operand, cfg) ==
  /\ operation = "divide" => operand > 0
  /\ validResult(calculateResult(value, operation, operand), operation, cfg)
  /\ ~LessThan(calculateResult(value, operation, operand), 0 - cfg.maxResult)

\* some strategy has a problem to give from value: an operation with an operand
\* inside its configured bounds, or add or subtract with an operand in 1..5
Producible(value, cfg) ==
  \/ \E k \in 1..4 :
       \E operand \in cfg.operations[Operations[k]].minValue
                        ..cfg.operations[Operations[k]].maxValue :
         ValidProblem(value, Operations[k], operand, cfg)
  \/ \E operation \in {"add", "subtract"} :
       \E operand \in 1..5 : ValidProblem(value, operation, operand, cfg)

\* C7: generateProblem returns null only when no strategy has a problem to give
\* from currentValue
FallbackCompleteness ==
  pc = "failed" => ~Producible(currentValue, config)

\* the default operand bounds, negative results not allowed, chainLength >= 3
\* and maxResult >= 20
DefaultBounds ==
  /\ config.operations = DefaultOperations
  /\ ~config.allowNegativeResults
  /\ config.chainLength >= 3
  /\ config.maxResult >= 20

\* C8: under the default operand bounds, negative results not allowed,
\* chainLength >= 3 and maxResult >= 20, for every mix no step fails,
\* generateChain returns a chain of exactly chainLength problems and
\* generateWorksheet exactly chainCount chains
NoDegradation ==
  DefaultBounds =>
    /\ pc # "failed"
    /\ pc = "accept" => /\ chain # <<>>
                        /\ Len(chain[1].problems) = config.chainLength
    /\ pc = "done" => Len(worksheet[1].chains) = config.chainCount

\* a full worksheet under the default bounds and a 100% divide mix, one of whose
\* problems the priority tier had to make (no divisor of 1 exists)
NoDegradationWitness ==
  /\ DefaultBounds
  /\ config.operationMix.divide = 100
  /\ pc = "done"
  /\ Len(worksheet[1].chains) = config.chainCount
  /\ \E p \in ProblemsOf(worksheet[1].chains[1]) :
       p.startValue = 1 /\ p.operation = "add"

\* C9: in a worksheet the chain ids are pairwise distinct and in each chain the
\* problem ids are pairwise distinct, whatever generateId drew
IdUniqueness ==
  worksheet # <<>> =>
    /\ Distinct(worksheet[1].chains)
    /\ \A k \in 1..Len(worksheet[1].chains) :
         Distinct(worksheet[1].chains[k].problems)

\* C10: the startingNumber of a returned chain is above 0 and at most maxResult
ValidStartingNumber ==
  Returned # <<>> =>
    /\ Returned[1].startingNumber > 0
    /\ Returned[1].startingNumber <= config.maxResult

(***************************************************************************)
(* Generation and its configuration                                        *)
(***************************************************************************)

\* C18: no step of generateWorksheet or generateChain changes the config it
\* was given (the last-resort attempt narrows a copy, so every later step and
\* chain reads the original bounds), and the returned worksheet's config is
\* that input config
ConfigImmutability ==
  [][/\ config' = config
     /\ worksheet' # <<>> => worksheet'[1].config = config]_vars

\* a returned worksheet with a last-resort problem (operand below the
\* configured minimum) that is not the last of its chain, under the bounds given
ConfigImmutabilityWitness ==
  /\ worksheet # <<>>
  /\ worksheet[1].config = config
  /\ \E k \in 1..Len(worksheet[1].chains) :
       \E j \in 1..Len(worksheet[1].chains[k].problems) - 1 :
         LET p == worksheet[1].chains[k].problems[j]
         IN  /\ p.operation \in {"add", "subtract"}
             /\ p.operand < config.operations[p.operation].minValue

(***************************************************************************)
(* The reducer's cases                                                     *)
(***************************************************************************)
\* the action dispatched by this step is of this type
Dispatched(type) == action' # <<>> /\ action'[1].type = type

\* the problem at a place of the worksheet
ProblemAt(sheet, pl) == sheet.chains[pl[1]].problems[pl[2]]

\* C11: when the worksheet holds a problem with the submitted id, SUBMIT_ANSWER
\* records under that id an answer with the submitted number as userAnswer and
\* with isCorrect true exactly when the number equals that problem's result; it
\* replaces an earlier answer of that id and changes no other answer
AnswerCorrectness ==
  [][(Dispatched("SUBMIT_ANSWER") /\ state.worksheet # <<>>) =>
       LET problemId == action'[1].problemId
           answer == action'[1].answer
       IN \A pl \in placesOf(state.worksheet[1], problemId) :
            /\ DOMAIN state'.answers = DOMAIN state.answers \cup {problemId}
            /\ state'.answers[problemId].userAnswer = answer
            /\ state'.answers[problemId].isCorrect
                 = (answer = ProblemAt(state.worksheet[1], pl).result)
            /\ \A k \in DOMAIN state.answers \ {problemId} :
                 state'.answers[k] = state.answers[k]]_vars

\* C12: START_SESSION without a worksheet, END_SESSION without a session,
\* NEXT_CHAIN without a worksheet and SUBMIT_ANSWER without a worksheet or for an
\* id no problem of the worksheet has each return the state they were given
GuardedNoOps ==
  [][/\ (Dispatched("START_SESSION") /\ state.worksheet = <<>>) =>
          state' = state /\ state'.isPlaying = FALSE /\ state'.session = <<>>
     /\ (Dispatched("END_SESSION") /\ state.session = <<>>) => state' = state
     /\ (Dispatched("NEXT_CHAIN") /\ state.worksheet = <<>>) => state' = state
     /\ (Dispatched("SUBMIT_ANSWER") /\ state.worksheet = <<>>) => state' = state
     /\ (/\ Dispatched("SUBMIT_ANSWER")
         /\ state.worksheet # <<>>
         /\ placesOf(state.worksheet[1], action'[1].problemId) = {}) =>
          state' = state]_vars

\* an answer was submitted for an id that no problem of the worksheet has, and
\* nothing was recorded
GuardedNoOpsWitness ==
  /\ action # <<>>
  /\ action[1].type = "SUBMIT_ANSWER"
  /\ state.worksheet # <<>>
  /\ getTotalProblems(state.worksheet[1]) > 0
  /\ placesOf(state.worksheet[1], action[1].problemId) = {}
  /\ state.answers = <<>>

\* C14: from any state GENERATE_WORKSHEET installs a worksheet generated from
\* the current config, empties answers, sets activeChainIndex and
\* activeInputIndex to 0, isPlaying to false, session to null and showSolutions
\* to false, and leaves config, mode, stats and userProfile as they were
GenerateWorksheetEffect ==
  [][Dispatched("GENERATE_WORKSHEET") =>
       /\ state'.worksheet # <<>>
       /\ state'.worksheet[1] \in generateWorksheetResults(state.config)
       /\ state'.worksheet[1].config = state.config
       /\ state'.answers = <<>>
       /\ state'.activeChainIndex = 0
       /\ state'.activeInputIndex = 0
       /\ state'.isPlaying = FALSE
       /\ state'.session = <<>>
       /\ state'.showSolutions = FALSE
       /\ state'.config = state.config
       /\ state'.mode = state.mode
       /\ state'.stats = state.stats
       /\ state'.userProfile = state.userProfile]_vars

\* a worksheet was generated over a finished session: the statistics of that
\* session are kept and the session is gone
GenerateWorksheetEffectWitness ==
  /\ action # <<>>
  /\ action[1].type = "GENERATE_WORKSHEET"
  /\ state.stats.totalSessions = 1
  /\ state.worksheet # <<>>
  /\ state.answers = <<>>
  /\ state.session = <<>>

\* activeChainIndex is 0 or the index of a chain of the worksheet
WithinChains(s) ==
  \/ s.activeChainIndex = 0
  \/ s.worksheet # <<>> /\ s.activeChainIndex < Len(s.worksheet[1].chains)

\* C15: NEXT_CHAIN with a worksheet sets lastCompletedChainIndex to the previous
\* activeChainIndex; when a next chain exists it adds one to activeChainIndex and
\* sets activeInputIndex to 0, and on the last chain it leaves activeChainIndex
\* as it is; GENERATE_WORKSHEET, START_SESSION, NEXT_CHAIN and RESET therefore
\* keep activeChainIndex at 0 or below the number of chains, as it is at first
NextChainAdvance ==
  /\ WithinChains(state)
  /\ [][/\ (Dispatched("NEXT_CHAIN") /\ state.worksheet # <<>>) =>
             /\ state'.lastCompletedChainIndex = <<state.activeChainIndex>>
             /\ IF state.activeChainIndex + 1 < Len(state.worksheet[1].chains)
                THEN /\ state'.activeChainIndex = state.activeChainIndex + 1
                     /\ state'.activeInputIndex = 0
                ELSE state'.activeChainIndex = state.activeChainIndex
        /\ (/\ action' # <<>>
            /\ action'[1].type \in {"GENERATE_WORKSHEET", "START_SESSION",
                                    "NEXT_CHAIN", "RESET"}
            /\ WithinChains(state)) => WithinChains(state')]_vars

\* NEXT_CHAIN was dispatched on the last of two chains, which an earlier
\* NEXT_CHAIN had moved to
NextChainAdvanceWitness ==
  /\ action # <<>>
  /\ action[1].type = "NEXT_CHAIN"
  /\ state.worksheet # <<>>
  /\ Len(state.worksheet[1].chains) = 2
  /\ state.activeChainIndex = 1
  /\ state.lastCompletedChainIndex = <<1>>

Places(sheet) ==
  UNION { { <<c, k>> : k \in 1..Len(sheet.chains[c].problems) }
          : c \in 1..Len(sheet.chains) }

\* C17: with a worksheet, isAllChainsComplete() is true exactly when every
\* problem of the worksheet has a recorded answer, and every key of answers is
\* the id of a problem of the worksheet
CompletionDetection ==
  state.worksheet # <<>> =>
    /\ isAllChainsComplete(state)
         <=> \A pl \in Places(state.worksheet[1]) :
               ProblemAt(state.worksheet[1], pl).id \in DOMAIN state.answers
    /\ \A k \in DOMAIN state.answers : placesOf(state.worksheet[1], k) # {}

(***************************************************************************)
(* Single calls: generateOperand on a running value and a configuration,   *)
(* and the END_SESSION case on a state with a session in play              *)
(***************************************************************************)
\* configurations of the calls have maxResult in 1..MaxCallResult
MaxCallResult == 12
\* the session in play has up to MaxAnsweredChains chains of 4 problems answered
MaxAnsweredChains == 10

\* the running values: those within the result bounds, negative ones included,
\* and one beyond (a startingNumber can exceed a small maxResult)
CallValues == (0 - MaxCallResult - 1)..(MaxCallResult + 1)

CallConfigs ==
  { GameConfig(maxResult, 6, 5, allowNegativeResults, operations, DefaultMix) :
      maxResult \in 1..MaxCallResult, allowNegativeResults \in BOOLEAN,
      operations \in {DefaultOperations, Level1Operations, CoarseOperations,
                      UnitOperations, HalvingOperations} }

\* number | null
Returnable(operands) ==
  IF operands = {} THEN { <<>> } ELSE { <<operand>> : operand \in operands }

\* generateOperand is called
CallGenerateOperand ==
  /\ call = <<>>
  /\ \E k \in 1..Len(Operations), value \in CallValues, cfg \in CallConfigs :
       call' = << [function |-> "generateOperand", pc |-> "called",
                   operation |-> Operations[k], currentValue |-> value,
                   config |-> cfg, returned |-> <<>>] >>
  /\ UNCHANGED <<config, idSpace, pc, chains, attempts, chainLocals, chain,
                 worksheet, state, dispatches, action>>

\* the call is under way
OperandCalled ==
  call # <<>> /\ call[1].function = "generateOperand" /\ call[1].pc = "called"

\* the call returns this value
GenerateOperandReturns(returned) ==
  /\ OperandCalled
  /\ returned \in Returnable(generateOperand(call[1].operation,
                                             call[1].currentValue, call[1].config))
  /\ call' = << [call[1] EXCEPT !.pc = "returned", !.returned = returned] >>
  /\ UNCHANGED <<config, idSpace, pc, chains, attempts, chainLocals, chain,
                 worksheet, state, dispatches, action>>

ReturnGenerateOperand ==
  /\ OperandCalled
  /\ \E returned \in Returnable(generateOperand(call[1].operation,
                                   call[1].currentValue, call[1].config)) :
       GenerateOperandReturns(returned)

\* the worksheet in play: MaxAnsweredChains chains 5 + 1 = 6, 6 - 1 = 5,
\* 5 + 1 = 6, 6 - 1 = 5, with the ids in the order generateId gave them
SessionConfig ==
  GameConfig(20, 4, MaxAnsweredChains, FALSE, DefaultOperations, AddSubtractMix)

SessionWorksheet ==
  [id |-> 5 * MaxAnsweredChains + 1,
   chains |->
     [c \in 1..MaxAnsweredChains |->
        [id |-> 5 * c, startingNumber |-> 5,
         problems |->
           [k \in 1..4 |->
              [id |-> 5 * (c - 1) + k,
               startValue |-> IF k % 2 = 1 THEN 5 ELSE 6,
               operation |-> IF k % 2 = 1 THEN "add" ELSE "subtract",
               operand |-> 1,
               result |-> IF k % 2 = 1 THEN 6 ELSE 5]]]],
   config |-> SessionConfig]

\* the state once the session has started
SessionStarted ==
  START_SESSION([initialState EXCEPT !.config = SessionConfig,
                                     !.worksheet = <<SessionWorksheet>>], "s")

\* the ids of the problems of the first chains answered, c chains and k problems
\* of the next
AnsweredIds(c, k) ==
  { 5 * (d - 1) + j : d \in 1..c, j \in 1..4 } \cup { 5 * c + j : j \in 1..k }

\* the state after SUBMIT_ANSWER for the problems of answered, with the
\* problem's result for those of right and with 0 for the others
InPlay(answered, right) ==
  [SessionStarted EXCEPT !.answers =
     [id \in answered |->
        [problemId |-> id,
         userAnswer |-> IF id \notin right THEN 0
                        ELSE correctResult(SessionWorksheet, id)[1],
         isCorrect |-> id \in right, answeredAt |-> "date"]]]

\* END_SESSION is dispatched in such a state
CallEndSession ==
  /\ call = <<>>
  /\ \E c \in 0..MaxAnsweredChains - 1, k \in 0..4 :
       \E rightChains \in 0..c, rightProblems \in 0..k :
         LET s == InPlay(AnsweredIds(c, k), AnsweredIds(rightChains, rightProblems))
         IN call' = << [function |-> "END_SESSION", pc |-> "returned", state |-> s,
                        returned |-> END_SESSION(s)] >>
  /\ UNCHANGED <<config, idSpace, pc, chains, attempts, chainLocals, chain,
                 worksheet, state, dispatches, action>>

\* the percentages of the mixes handed to selectOperationByMix; the mixes are
\* all the combinations, those that do not sum to 100 included
MixLevels == {0, 10, 40, 50, 100}

CallMixes ==
  { [add |-> a, subtract |-> b, multiply |-> c, divide |-> d] :
      a \in MixLevels, b \in MixLevels, c \in MixLevels, d \in MixLevels }

\* selectOperationByMix(mix) with the draw random (its integer part)
CallSelectOperationByMix ==
  /\ call = <<>>
  /\ \E mix \in CallMixes, random \in Draws :
       call' = << [function |-> "selectOperationByMix", pc |-> "returned",
                   mix |-> mix, random |-> random,
                   returned |-> selectOperationByMix(mix, random)] >>
  /\ UNCHANGED <<config, idSpace, pc, chains, attempts, chainLocals, chain,
                 worksheet, state, dispatches, action>>

\* ---------------------------------------------------------------------------
\* OperationMixSlider: the rebalancing of the four percentages
\* ---------------------------------------------------------------------------

\* the minPercent the settings panel passes to the slider (also its default)
minPercent == 10

\* the step of the - and + buttons
buttonStep == 5

\* the (remaining, value, totalOther) triples, for value and totalOther
\* multiples of 5, for which remaining * value / totalOther is k + 0.5 exactly
\* while the double remaining * (value / totalOther) lies just below it
productBelowTie ==
  { <<0 - 54, 35, 60>>, <<0 - 49, 45, 70>>, <<0 - 21, 45, 70>>,
    <<0 - 45, 55, 90>> }

\* Math.round(remaining * (value / totalOther)) in double arithmetic: halves
\* go up, for negative products too
roundedAdjustment(remaining, value, totalOther) ==
  LET exact == (2 * remaining * value + totalOther) \div (2 * totalOther)
  IN IF <<remaining, value, totalOther>> \in productBelowTie
     THEN exact - 1 ELSE exact

\* Object.keys(newValue).filter(k => k !== key)
otherKeysOf(key) == SelectSeq(Operations, LAMBDA k : k # key)

\* Object.values(newValue).reduce((a, b) => a + b, 0)
totalOf(newValue) ==
  newValue.add + newValue.subtract + newValue.multiply + newValue.divide

\* the loop that spreads the difference over the other keys, from otherKeys[i]
RECURSIVE distribute(_, _, _, _, _, _)
distribute(newValue, otherKeys, totalOther, remaining, index, least) ==
  IF index > Len(otherKeys) THEN newValue
  ELSE LET k == otherKeys[index]
       IN IF index = Len(otherKeys)
          THEN [newValue EXCEPT ![k] = Max(least, newValue[k] + remaining)]
          ELSE LET adjustment ==
                     roundedAdjustment(remaining, newValue[k], totalOther)
                   adjusted == Max(least, newValue[k] + adjustment)
                   actualAdjustment == adjusted - newValue[k]
               IN distribute([newValue EXCEPT ![k] = adjusted], otherKeys,
                             totalOther, remaining - actualAdjustment,
                             index + 1, least)

\* otherKeys.sort((a, b) => newValue[b] - newValue[a]): descending, stable
sortedKeys(newValue, otherKeys) ==
  LET place(a) ==
        1 + Cardinality({ b \in 1..Len(otherKeys) :
                            \/ newValue[otherKeys[b]] > newValue[otherKeys[a]]
                            \/ /\ newValue[otherKeys[b]] = newValue[otherKeys[a]]
                               /\ b < a })
  IN [ p \in 1..Len(otherKeys) |->
         otherKeys[CHOOSE a \in 1..Len(otherKeys) : place(a) = p] ]

\* the normalisation: the first of the sorted keys that stays at or above the
\* minimum takes the whole difference; when none does, nothing changes
normalize(newValue, otherKeys, least) ==
  LET total == totalOf(newValue)
      diff == 100 - total
      sorted == sortedKeys(newValue, otherKeys)
      able == { p \in 1..Len(sorted) : newValue[sorted[p]] + diff >= least }
  IN IF total = 100 \/ able = {} THEN newValue
     ELSE LET k == sorted[CHOOSE p \in able : \A q \in able : p <= q]
          IN [newValue EXCEPT ![k] = newValue[k] + diff]

\* adjustValue(key, delta) on the mix `value`: the mixes passed to onChange,
\* none on an early return
adjustValue(value, key, delta, least) ==
  LET currentVal == value[key]
      newVal == Max(least, Min(100 - 3 * least, currentVal + delta))
      diff == newVal - currentVal
      newValue == [value EXCEPT ![key] = newVal]
      otherKeys == otherKeysOf(key)
      totalOther == newValue[otherKeys[1]] + newValue[otherKeys[2]]
                      + newValue[otherKeys[3]]
  IN IF newVal = currentVal \/ totalOther = 0 THEN <<>>
     ELSE << normalize(distribute(newValue, otherKeys, totalOther, 0 - diff,
                                  1, least),
                       otherKeys, least) >>

\* handleSliderChange(key, newPercent)
handleSliderChange(value, key, newPercent, least) ==
  LET clampedPercent == Max(least, Min(100 - 3 * least, newPercent))
      diff == clampedPercent - value[key]
  IN IF diff # 0 THEN adjustValue(value, key, diff, least) ELSE <<>>

\* the percentages a mix of the slider is drawn from: the minimum and the
\* button steps above it up to the range's maximum
SliderLevels ==
  { minPercent + buttonStep * n : n \in 0..12 } \cap minPercent..(100 - 3 * minPercent)

\* mixes that sum to 100 with every percentage at or above minPercent
SliderMixes ==
  { mix \in [add : SliderLevels, subtract : SliderLevels,
             multiply : SliderLevels, divide : SliderLevels] :
      totalOf(mix) = 100 }

\* the values the range input can report: min to max in steps of one
SliderTargets == minPercent..(100 - 3 * minPercent)

\* a click on the - or the + button of one operation, where it is enabled
CallAdjustValue ==
  /\ call = <<>>
  /\ \E value \in SliderMixes, k \in 1..4, delta \in {0 - buttonStep, buttonStep} :
       /\ delta < 0 => ~(value[Operations[k]] <= minPercent)
       /\ delta > 0 => ~(value[Operations[k]] >= 100 - 3 * minPercent)
       /\ call' = << [function |-> "adjustValue", pc |-> "returned",
                      value |-> value, key |-> Operations[k], delta |-> delta,
                      onChange |-> adjustValue(value, Operations[k], delta,
                                               minPercent)] >>
  /\ UNCHANGED <<config, idSpace, pc, chains, attempts, chainLocals, chain,
                 worksheet, state, dispatches, action>>

\* a move of the range input of one operation
CallHandleSliderChange ==
  /\ call = <<>>
  /\ \E value \in SliderMixes, k \in 1..4, newPercent \in SliderTargets :
       call' = << [function |-> "handleSliderChange", pc |-> "returned",
                   value |-> value, key |-> Operations[k],
                   newPercent |-> newPercent,
                   onChange |-> handleSliderChange(value, Operations[k],
                                                   newPercent, minPercent)] >>
  /\ UNCHANGED <<config, idSpace, pc, chains, attempts, chainLocals, chain,
                 worksheet, state, dispatches, action>>

\* no call has been made
CallInit ==
  /\ NoCall
  /\ state = <<>>
  /\ dispatches = 0
  /\ action = <<>>
  /\ call = <<>>

CallNext ==
  \/ CallGenerateOperand
  \/ CallSelectOperationByMix
  \/ ReturnGenerateOperand
  \/ CallEndSession
  \/ CallAdjustValue
  \/ CallHandleSliderChange

CallSpec == CallInit /\ [][CallNext]_vars

(***************************************************************************)
(* What a call returns                                                     *)
(***************************************************************************)
\* a generateOperand call has returned
OperandReturned ==
  call # <<>> /\ call[1].function = "generateOperand" /\ call[1].pc = "returned"

\* the valid operand interval of add, subtract and multiply
OperandInterval(operation, value, cfg) ==
  LET minV == cfg.operations[operation].minValue
      maxV == cfg.operations[operation].maxValue
      R == cfg.maxResult
      minResult == IF cfg.allowNegativeResults THEN 0 - R ELSE 1
  IN CASE operation = "add" -> minV..Min(maxV, R - value)
       [] operation = "subtract" -> minV..Min(maxV, value - minResult)
       [] operation = "multiply" ->
            IF value = 0 THEN minV..maxV ELSE minV..Min(maxV, FloorDiv(R, value))

\* C19: for add, subtract and multiply generateOperand returns null exactly when
\* the operation's valid operand interval is empty and a member of the interval
\* otherwise (operand bounds with minValue <= maxValue)
OperandSearch ==
  (OperandReturned /\ call[1].operation \in {"add", "subtract", "multiply"}) =>
    LET interval == OperandInterval(call[1].operation, call[1].currentValue,
                                    call[1].config)
    IN /\ call[1].returned = <<>> <=> interval = {}
       /\ call[1].returned # <<>> => call[1].returned[1] \in interval

\* an add returned the largest addend that maxResult leaves, below the
\* configured maxValue
OperandSearchWitness ==
  /\ OperandReturned
  /\ call[1].operation = "add"
  /\ call[1].returned
       = << call[1].config.maxResult - call[1].currentValue >>
  /\ call[1].config.maxResult - call[1].currentValue
       < call[1].config.operations.add.maxValue

\* the integers d of [minV, min(maxV, value)] that divide value with a quotient
\* in [1, R]
Divisors(value, cfg) ==
  { d \in cfg.operations.divide.minValue..Min(cfg.operations.divide.maxValue, value) :
      /\ d > 0
      /\ value % d = 0
      /\ (value \div d) \in 1..cfg.maxResult }

\* C20: for divide generateOperand returns null when currentValue <= 0 or when
\* no integer of [minV, min(maxV, currentValue)] divides currentValue with a
\* quotient in [1, R]; otherwise it returns one of those divisors, and each of
\* them is a value the call can return
DivideOperandSearch ==
  /\ (OperandReturned /\ call[1].operation = "divide") =>
       LET divisors == Divisors(call[1].currentValue, call[1].config)
       IN IF call[1].currentValue <= 0 \/ divisors = {}
          THEN call[1].returned = <<>>
          ELSE call[1].returned # <<>> /\ call[1].returned[1] \in divisors
  /\ (OperandCalled /\ call[1].operation = "divide" /\ call[1].currentValue > 0) =>
       \A d \in Divisors(call[1].currentValue, call[1].config) :
         ENABLED GenerateOperandReturns(<<d>>)

\* a divide returned the largest of several divisors
DivideOperandSearchWitness ==
  /\ OperandReturned
  /\ call[1].operation = "divide"
  /\ call[1].returned # <<>>
  /\ LET divisors == Divisors(call[1].currentValue, call[1].config)
     IN /\ Cardinality(divisors) >= 3
        /\ \A d \in divisors : d <= call[1].returned[1]

\* correct / total * 100 rounded to the nearest integer, a half upwards
Rounded(correct, total) == (200 * correct + total) \div (2 * total)

\* C13: with a session, END_SESSION sets isPlaying to false, marks the session
\* complete with an endedAt and stores the score: correct and incorrect are the
\* numbers of recorded answers with isCorrect true and false, total is their
\* sum and percentage is round(correct / total * 100), 0 when total is 0
ScoringOnEndSession ==
  (/\ call # <<>>
   /\ call[1].function = "END_SESSION"
   /\ call[1].state.session # <<>>) =>
    LET answers == call[1].state.answers
        after == call[1].returned
        correct == Cardinality({ id \in DOMAIN answers : answers[id].isCorrect })
        incorrect == Cardinality({ id \in DOMAIN answers : ~answers[id].isCorrect })
    IN /\ after.isPlaying = FALSE
       /\ after.session # <<>>
       /\ after.session[1].isComplete = TRUE
       /\ after.session[1].endedAt # <<>>
       /\ after.session[1].score.correct = correct
       /\ after.session[1].score.incorrect = incorrect
       /\ after.session[1].score.total = correct + incorrect
       /\ after.session[1].score.percentage
            = IF correct + incorrect = 0 THEN 0
              ELSE Rounded(correct, correct + incorrect)

(***************************************************************************)
(* The steps of generateChain and generateProblem                          *)
(***************************************************************************)
\* C21: generateChain appends one problem per step until chainLength problems
\* are there or a step fails; a returned chain has at most chainLength problems
\* and exactly chainLength unless a step failed with 3 or more problems built,
\* when the partial chain is returned; a step failing with fewer than 3 problems
\* built makes generateChain return null
ChainGrowth ==
  /\ [](Returned # <<>> => Len(Returned[1].problems) <= config.chainLength)
  /\ [][/\ (problems' # problems /\ problems' # <<>>) =>
             /\ \E p \in { problems'[Len(problems')] } :
                  problems' = Append(problems, p)
             /\ Len(problems') <= config.chainLength
        /\ (pc # "failed" /\ pc' = "chainReturn") =>
             Len(problems') = config.chainLength
        /\ (pc = "failed" /\ Len(problems) >= 3) =>
             pc' = "chainReturn" /\ problems' = problems
        /\ (pc = "failed" /\ Len(problems) < 3) =>
             pc' = "accept" /\ chain' = <<>>
        /\ (pc = "chainReturn" /\ Len(problems) > 0) =>
             /\ pc' = "accept"
             /\ chain' # <<>>
             /\ chain'[1].problems = problems]_vars

\* a step has failed with 3 problems built of the 4 asked for, and the
\* partial list is about to be returned
ChainGrowthWitness ==
  /\ pc = "chainReturn"
  /\ simpleTries = 2
  /\ Len(problems) = 3
  /\ config.chainLength = 4

\* the starting numbers of the heuristic as its three intervals state them
HeuristicStarts(cfg) ==
  IF cfg.operationMix.multiply + cfg.operationMix.divide >= 50
  THEN IF \E n \in goodStarts : 2 * n <= cfg.maxResult
       THEN { n \in goodStarts : 2 * n <= cfg.maxResult }
       ELSE 10..Min(50, FloorDiv(cfg.maxResult, 3))
  ELSE Max(5, FloorDiv(cfg.maxResult, 10))..Min(FloorDiv(4 * cfg.maxResult, 10), 100)

\* C22: whatever maxResult is, the starting number of a chain is, for a mix with
\* multiply% + divide% >= 50, a member of goodStarts that is <= maxResult / 2
\* or, when there is none, a value in [10, min(50, maxResult / 3)], and for any
\* other mix a value in
\* [max(5, floor(maxResult * 0.1)), min(floor(maxResult * 0.4), 100)]
StartingValueHeuristic ==
  InChain => startingNumber \in HeuristicStarts(config)

\* the percentages of the first k operations added up
Cumulative(mix, k) ==
  IF k = 0 THEN 0
  ELSE IF k = 1 THEN mix.add
  ELSE IF k = 2 THEN mix.add + mix.subtract
  ELSE IF k = 3 THEN mix.add + mix.subtract + mix.multiply
  ELSE mix.add + mix.subtract + mix.multiply + mix.divide

\* C23: for a draw r of [0, 100) selectOperationByMix returns the first of add,
\* subtract, multiply whose cumulative percentage is above r, and divide when
\* there is none; so it returns one of the four operations for every
\* non-negative mix, and for a mix summing to 100 never an operation of 0%
OperationSelectionPolicy ==
  (call # <<>> /\ call[1].function = "selectOperationByMix") =>
    LET mix == call[1].mix
        r == call[1].random
        above == { k \in 1..3 : r < Cumulative(mix, k) }
    IN /\ call[1].returned
            = IF above = {} THEN "divide"
              ELSE Operations[CHOOSE k \in above : \A j \in above : k <= j]
       /\ call[1].returned \in {"add", "subtract", "multiply", "divide"}
       /\ Cumulative(mix, 4) = 100 => mix[call[1].returned] > 0

\* divide was returned for a mix that sums to 50 and gives divide 0%
OperationSelectionPolicyWitness ==
  /\ call # <<>>
  /\ call[1].function = "selectOperationByMix"
  /\ Cumulative(call[1].mix, 4) = 50
  /\ call[1].mix.divide = 0
  /\ call[1].returned = "divide"

\* the operations that come before this one when the four are put in descending
\* order of percentage, equal percentages in the order add, subtract, multiply,
\* divide
Before(mix, operation) ==
  { k \in 1..4 :
      \/ mix[Operations[k]] > mix[operation]
      \/ /\ mix[Operations[k]] = mix[operation]
         /\ \E j \in k + 1..4 : Operations[j] = operation }

\* C24: tier 2 is entered only after all 20 weighted-random attempts have
\* failed; it attempts the four operations in descending order of percentage,
\* ties in the order add, subtract, multiply, divide, and the problem it returns
\* uses the first operation of that order whose construction succeeded
PriorityFallbackOrder ==
  /\ [](pc = "priority" => attempt = maxAttempts)
  /\ [][/\ (pc # "priority" /\ pc' = "priority") =>
             /\ pc = "random"
             /\ attempt = maxAttempts - 1
             /\ problems' = problems
        /\ (pc = "priority" /\ problems' # problems) =>
             /\ Len(problems') = Len(problems) + 1
             /\ Cardinality(Before(config.operationMix,
                                   problems'[Len(problems')].operation)) = sortedIdx
        /\ (pc = "priority" /\ problems' = problems) =>
             /\ sortedIdx' = sortedIdx + 1
             /\ pc' = IF sortedIdx' < 4 THEN "priority" ELSE "lastResort"]_vars

\* under the mix 40/40/10/10 the random attempts, add and subtract have failed
\* and tier 2 is at its third operation
PriorityFallbackOrderWitness ==
  /\ pc = "priority"
  /\ sortedIdx = 2
  /\ config.operationMix = DefaultMix

\* C25: tier 3 is attempted only after the four operations of tier 2 have
\* failed; it attempts add and then subtract with the operand bounds [1, 5],
\* maxResult, allowNegativeResults, the multiply and divide bounds and the
\* validation of the result being those of the config, so the problem it
\* returns is an add or a subtract with an operand in 1..5 whose result
\* satisfies the bounds invariant
LastResortTier ==
  /\ [](pc = "lastResort" => attempt = maxAttempts /\ sortedIdx = 4)
  /\ [][/\ (pc # "lastResort" /\ pc' = "lastResort") =>
             /\ pc = "priority"
             /\ sortedIdx = 3
             /\ problems' = problems
        /\ (pc = "lastResort" /\ problems' # problems) =>
             LET p == problems'[Len(problems')]
             IN /\ Len(problems') = Len(problems) + 1
                /\ p.operation = <<"add", "subtract">>[simpleTries + 1]
                /\ p.operand \in 1..5
                /\ p.startValue = currentValue
                /\ p.result = IF p.operation = "add" THEN currentValue + p.operand
                              ELSE currentValue - p.operand
                /\ p.result <= config.maxResult
                /\ p.result >= IF config.allowNegativeResults
                               THEN 0 - config.maxResult ELSE 1
        /\ (pc = "lastResort" /\ problems' = problems) =>
             /\ simpleTries' = simpleTries + 1
             /\ pc' = IF simpleTries' < 2 THEN "lastResort" ELSE "failed"]_vars

\* tier 3 has just given a subtract whose operand is below the configured
\* minimum of subtract
LastResortTierWitness ==
  /\ InChain
  /\ attempt = 0
  /\ Len(problems) > 0
  /\ problems[Len(problems)].operation = "subtract"
  /\ problems[Len(problems)].operand \in 1..5
  /\ problems[Len(problems)].operand < config.operations.subtract.minValue

\* ---------------------------------------------------------------------------
\* C26  Mix rebalancing
\* ---------------------------------------------------------------------------

\* a button click or a slider move has passed a mix to onChange
MixPassed ==
  /\ call # <<>>
  /\ call[1].function \in {"adjustValue", "handleSliderChange"}
  /\ call[1].onChange # <<>>

\* C26: starting from a mix that sums to 100 with every percentage at or above
\* minPercent, every mix the slider passes to onChange after a button click or
\* a slider move sums to exactly 100 and has every percentage between
\* minPercent and 100 - 3 * minPercent
MixRebalancing ==
  MixPassed =>
    LET mix == call[1].onChange[1]
    IN /\ totalOf(mix) = 100
       /\ \A k \in 1..4 : /\ mix[Operations[k]] >= minPercent
                          /\ mix[Operations[k]] <= 100 - 3 * minPercent

\* ---------------------------------------------------------------------------
\* C27  Operand bounds
\* ---------------------------------------------------------------------------

\* the operand of p lies within the configured bounds of p's operation
WithinConfigured(p) ==
  /\ p.operand >= config.operations[p.operation].minValue
  /\ p.operand <= config.operations[p.operation].maxValue

\* p is an add or a subtract with an operand in 1..5
WithinLastResort(p) ==
  /\ p.operation \in {"add", "subtract"}
  /\ p.operand \in 1..5

\* C27: every generated multiply or divide problem has an operand within the
\* configured bounds of its operation, and every generated add or subtract
\* problem has an operand within its configured bounds or, only when the
\* last-resort tier produced it, within 1..5
OperandBounds ==
  /\ [](\A c \in ChainsOut : \A p \in ProblemsOf(c) :
          WithinConfigured(p) \/ WithinLastResort(p))
  /\ [][Len(problems') = Len(problems) + 1 =>
          LET p == problems'[Len(problems')]
          IN IF pc = "lastResort" THEN WithinLastResort(p)
             ELSE WithinConfigured(p)]_vars

\* a returned chain holds a multiply inside its bounds and an add whose operand
\* is below the configured minimum of add
OperandBoundsWitness ==
  /\ Returned # <<>>
  /\ \E p \in ProblemsOf(Returned[1]) :
       p.operation \in {"multiply", "divide"} /\ WithinConfigured(p)
  /\ \E p \in ProblemsOf(Returned[1]) :
       /\ p.operation \in {"add", "subtract"}
       /\ ~WithinConfigured(p)
       /\ p.operand \in 1..5

\* ---------------------------------------------------------------------------
\* C28  Zero-weight operations only as a fallback
\* ---------------------------------------------------------------------------

\* some operation with a positive percentage has an operand inside its
\* configured bounds that gives a valid problem from value
WeightedProducible(value, cfg) ==
  \E k \in 1..4 :
    /\ cfg.operationMix[Operations[k]] > 0
    /\ \E operand \in cfg.operations[Operations[k]].minValue
                        ..cfg.operations[Operations[k]].maxValue :
         ValidProblem(value, Operations[k], operand, cfg)

\* C28: for a mix summing to 100, a generated problem uses an operation whose
\* percentage is 0 only if no operation with a positive percentage can produce
\* a valid problem at that currentValue
ZeroWeightFallback ==
  [][(/\ Len(problems') = Len(problems) + 1
      /\ totalOf(config.operationMix) = 100
      /\ config.operationMix[problems'[Len(problems')].operation] = 0)
       => ~WeightedProducible(currentValue, config)]_vars

\* ---------------------------------------------------------------------------
\* C29  Session state invariant
\* ---------------------------------------------------------------------------

\* C29: after any sequence of reducer actions, whenever isPlaying is true there
\* is a worksheet and a session that is not complete, and whenever a session
\* exists its worksheet is the current worksheet
SessionStateInvariant ==
  /\ state.isPlaying =>
       /\ state.worksheet # <<>>
       /\ state.session # <<>>
       /\ ~state.session[1].isComplete
  /\ state.session # <<>> =>
       /\ state.worksheet # <<>>
       /\ state.session[1].worksheet = state.worksheet[1]

\* a session has been played and ended, and its worksheet is still the current
\* one
SessionStateInvariantWitness ==
  /\ ~state.isPlaying
  /\ state.session # <<>>
  /\ state.session[1].isComplete
  /\ DOMAIN state.answers # {}
  /\ state.session[1].worksheet = state.worksheet[1]

\* ---------------------------------------------------------------------------
\* C30  A session is counted once
\* ---------------------------------------------------------------------------

\* C30: a session is counted once in the statistics: END_SESSION dispatched
\* again on a session that is already complete leaves stats, the session's
\* score and its endedAt unchanged
SessionCountedOnce ==
  [][(/\ Dispatched("END_SESSION")
      /\ state.session # <<>>
      /\ state.session[1].isComplete)
       => /\ state'.stats = state.stats
          /\ state'.session[1].score = state.session[1].score
          /\ state'.session[1].endedAt = state.session[1].endedAt]_vars

====
